---- MODULE Spec2Model ----
(***************************************************************************)
(* The ShaperDashboard React component (src/unnamed/part_003): script      *)
(* loading, the instance life cycle, the jwt rendezvous and the forwarding *)
(* of the vars prop, as a state                                            *)
(* machine over React commits, DOM script events and calls of the widget.  *)
(*                                                                         *)
(* One step of the model is one turn of the browser's event loop:          *)
(*   Mount / Render / HostSetJwt / Unmount  a React commit of one          *)
(*        component (cleanups of the effects whose dependencies changed,   *)
(*        then these effects in declaration order);                        *)
(*   ScriptLoad / ScriptError  the load or error event of a script tag,    *)
(*        dispatched to every listener attached to it;                     *)
(*   GetJwt  the live widget instance calling the getJwt closure;          *)
(*   VarsChanged  the live widget instance reporting a change of its       *)
(*        variables through the onVarsChanged closure.                     *)
(***************************************************************************)
EXTENDS Integers, Sequences, FiniteSets, TLC

\* ---- bounds of the model ----
MaxReq == 2        \* getJwt calls per mounted component
MaxRenders == 2    \* host-driven re-renders (prop changes) of the component in Spec
MaxPageRenders == 2 \* host-driven re-renders (prop changes) per component in PageSpec
MaxLifeRenders == 2 \* host-driven re-renders (prop changes) of the component in LifeSpec
MaxVarsRenders == 3 \* host-driven re-renders (new vars objects) of the component in VarsSpec
MaxJwtRenders == 3  \* host-driven re-renders (jwt changes) of the component in JwtSpec
MaxNotify == 2      \* variables-changed notifications of the widget per component
MaxNotifyRenders == 2 \* host-driven re-renders (prop changes) of the component in NotifySpec

Comps == {"c1", "c2"}                 \* component instances on the page (one mount each)
Solo == {"c1"}                        \* the component that Spec follows through all its props
BaseUrls == {"http://a", "http://b"}  \* values of the baseUrl prop
Ids == {"d1", "d2"}                    \* values of the id prop
Tokens == {"t1", "t2"}                 \* non-empty jwt strings
Undefined == "<undefined>"             \* the JavaScript value undefined
JwtVals == Tokens \cup {Undefined}
RefreshFns == {"r1", "r2"}             \* host functions passed as refreshJwt
ErrorFns == {"e1", "e2"}               \* host functions passed as onLoadError
VarsFns == {"v1", "v2"}                \* host functions passed as onVarsChanged

\* part_003:62  vars?: Record<string, string | string[]>, as the list of its own
\* properties in insertion order (the order JSON.stringify walks them), with the
\* identity of the object (ref), which is what React compares in [vars].
Str(s) == [kind |-> "string", items |-> <<s>>]
Arr(ss) == [kind |-> "array", items |-> ss]
Entry(k, v) == [key |-> k, val |-> v]
Obj(entries) == [defined |-> TRUE, ref |-> 1, entries |-> entries]
UndefinedVars == [defined |-> FALSE, ref |-> 0, entries |-> <<>>]   \* the vars prop is not passed
\* Another object with the properties of v, in the same order.
Copy(v) == [v EXCEPT !.ref = 2]

VarsA1 == Obj(<<Entry("a", Str("1"))>>)                        \* {a: "1"}
VarsA2 == Obj(<<Entry("a", Str("2"))>>)                        \* {a: "2"}
VarsAB == Obj(<<Entry("a", Str("1")), Entry("b", Str("2"))>>)  \* {a: "1", b: "2"}
VarsBA == Obj(<<Entry("b", Str("2")), Entry("a", Str("1"))>>)  \* {b: "2", a: "1"}
VarsArr == Obj(<<Entry("a", Arr(<<"1", "2">>))>>)              \* {a: ["1", "2"]}
VarsObjs == {VarsA1, VarsA2, VarsAB, VarsBA, VarsArr}
VarsVals == {UndefinedVars} \cup VarsObjs \cup {Copy(v) : v \in VarsObjs}

RECURSIVE JoinJson(_)
JoinJson(parts) ==
  IF parts = <<>> THEN ""
  ELSE IF Len(parts) = 1 THEN parts[1]
  ELSE parts[1] \o "," \o JoinJson(Tail(parts))

QuoteJson(s) == "\"" \o s \o "\""

ValueJson(v) ==
  IF v.kind = "string"
  THEN QuoteJson(v.items[1])
  ELSE "[" \o JoinJson([i \in 1..Len(v.items) |-> QuoteJson(v.items[i])]) \o "]"

\* part_003:147  JSON.stringify(vars): undefined for undefined, else the properties
\* in insertion order.
JsonStringify(v) ==
  IF ~v.defined THEN Undefined
  ELSE "{" \o JoinJson([i \in 1..Len(v.entries) |->
                          QuoteJson(v.entries[i].key) \o ":" \o ValueJson(v.entries[i].val)])
           \o "}"

\* part_003:74  onLoadError = () => { }   (the default of the prop)
DefaultOnLoadError == "noop"
\* part_003:80  useRef<() => void>(() => { })
InitialRefresh == "noop"

\* part_003:41-62  every props value of the model.
AllProps ==
  [id : Ids, baseUrl : BaseUrls, jwt : JwtVals \cup {""}, refreshJwt : RefreshFns,
   onLoadError : ErrorFns, vars : VarsVals, onVarsChanged : VarsFns \cup {Undefined}]

\* The props the host passes in Spec: the props of the instance life cycle and of the
\* jwt rendezvous vary.
PropsSet ==
  [id : Ids, baseUrl : BaseUrls, jwt : JwtVals, refreshJwt : RefreshFns,
   onLoadError : {"e1"}, vars : {VarsA1}, onVarsChanged : {Undefined}]

\* The props the host passes in LifeSpec: every prop varies.
LifeProps ==
  [id : Ids, baseUrl : BaseUrls, jwt : {"t1", Undefined}, refreshJwt : RefreshFns,
   onLoadError : ErrorFns, vars : {VarsA1, VarsA2}, onVarsChanged : {"v1", Undefined}]

\* The props the host passes in PageSpec, where several components share the page:
\* only the props the script loading reads vary.
PageProps ==
  [id : {"d1"}, baseUrl : BaseUrls, jwt : {"t1"}, refreshJwt : {"r1"},
   onLoadError : {"e1"}, vars : {VarsA1}, onVarsChanged : {Undefined}]

\* The props the host passes in VarsSpec: only vars varies (undefined, objects with
\* other values, another object with the same properties, the same properties
\* inserted in another order).
VarsProps ==
  [id : {"d1"}, baseUrl : {"http://a"}, jwt : {"t1"}, refreshJwt : {"r1"},
   onLoadError : {"e1"}, onVarsChanged : {Undefined},
   vars : {UndefinedVars, VarsA1, Copy(VarsA1), VarsA2, VarsAB, VarsBA}]

\* The props the host passes in JwtSpec: jwt varies over tokens, undefined and the
\* empty string.
JwtProps ==
  [id : {"d1"}, baseUrl : {"http://a"}, jwt : Tokens \cup {Undefined, ""}, refreshJwt : {"r1"},
   onLoadError : {"e1"}, onVarsChanged : {Undefined}, vars : {VarsA1}]

\* The props the host passes in NotifySpec: onVarsChanged and vars vary.
NotifyProps ==
  [id : {"d1"}, baseUrl : {"http://a"}, jwt : {"t1"}, refreshJwt : {"r1"},
   onLoadError : {"e1"}, onVarsChanged : VarsFns \cup {Undefined}, vars : {VarsA1, VarsA2}]

\* part_003:112  const scriptUrl = `${baseUrl}/embed/shaper.js`
ScriptUrl(baseUrl) == baseUrl \o "/embed/shaper.js"

ScriptUrls == {ScriptUrl(b) : b \in BaseUrls}

\* part_003:123,136  `Failed to load Shaper script from ${scriptUrl}`
FailureMessage(scriptUrl) == "Failed to load Shaper script from " \o scriptUrl

\* Mutant of Truthy: only undefined is excluded.
TruthyNotUndefined(jwt) == jwt # Undefined

\* part_003:96  if (jwt)   -- undefined and the empty string are falsy
Truthy(jwt) == jwt # Undefined /\ jwt # ""

VARIABLES
  \* ---- the page ----
  shaper,            \* window.shaper?.dashboard is defined
  script,            \* script tag of each URL: "absent" | "loading" | "loaded" | "failed"
  listeners,         \* per script URL: the components whose load/error handlers are attached
  appended,          \* per script URL: number of document.body.appendChild(script) calls
  \* ---- each component ----
  phase,             \* "init" | "mounted" | "unmounted"
  props,             \* props of the last commit
  scriptLoadedState, \* the useState cell behind scriptLoaded (latest setScriptLoaded)
  scriptLoaded,      \* value of scriptLoaded in the last commit
  containerRef,      \* containerRef.current is the attached div
  dashboardRef,      \* 0 for null, else the index in instances of dashboardRef.current
  hasCleanup,        \* the last run of the initialize effect returned its cleanup
  resolveJwtRef,     \* queue of pending resolvers, by request number
  refreshRef,
  onLoadErrorRef,
  varsRef,           \* the vars forwarded last (or undefined)
  varsJsonRef,       \* JSON.stringify of the vars forwarded last
  onVarsChangedRef,
  \* ---- what the widget and the host observe ----
  instances,         \* per component: the factory calls so far, each with the vars it
                     \* was created with, its update() calls, its destroy() count and
                     \* the order of the calls made on it
  requests,          \* per component: number of getJwt calls
  refreshLog,        \* per component: refresh functions invoked, in order
  resolved,          \* per component: promises resolved, in order
  loadErrors,        \* per component: onLoadError invocations, in order
  varsChangedLog,    \* per component: notifications of the widget, each with the
                     \* onVarsChanged calls it led to
  owed,              \* per component: refreshJwt invocations the host has not yet answered
  renders            \* per component: host-driven re-renders so far

pageVars == <<shaper, script, listeners, appended>>
compVars == <<phase, props, scriptLoadedState, scriptLoaded, containerRef, dashboardRef,
              hasCleanup, resolveJwtRef, refreshRef, onLoadErrorRef, varsRef, varsJsonRef,
              onVarsChangedRef>>
obsVars == <<instances, requests, refreshLog, resolved, loadErrors, varsChangedLog, owed,
             renders>>
vars == <<pageVars, compVars, obsVars>>

InitialProps == CHOOSE p \in PropsSet : TRUE

Init ==
  /\ shaper = FALSE
  /\ script = [u \in ScriptUrls |-> "absent"]
  /\ listeners = [u \in ScriptUrls |-> <<>>]
  /\ appended = [u \in ScriptUrls |-> 0]
  /\ phase = [c \in Comps |-> "init"]
  /\ props = [c \in Comps |-> InitialProps]
  /\ scriptLoadedState = [c \in Comps |-> FALSE]
  /\ scriptLoaded = [c \in Comps |-> FALSE]
  /\ containerRef = [c \in Comps |-> FALSE]
  /\ dashboardRef = [c \in Comps |-> 0]
  /\ hasCleanup = [c \in Comps |-> FALSE]
  /\ resolveJwtRef = [c \in Comps |-> <<>>]
  /\ refreshRef = [c \in Comps |-> InitialRefresh]
  /\ onLoadErrorRef = [c \in Comps |-> DefaultOnLoadError]
  /\ varsRef = [c \in Comps |-> UndefinedVars]
  /\ varsJsonRef = [c \in Comps |-> Undefined]
  /\ onVarsChangedRef = [c \in Comps |-> Undefined]
  /\ instances = [c \in Comps |-> <<>>]
  /\ requests = [c \in Comps |-> 0]
  /\ refreshLog = [c \in Comps |-> <<>>]
  /\ resolved = [c \in Comps |-> <<>>]
  /\ loadErrors = [c \in Comps |-> <<>>]
  /\ varsChangedLog = [c \in Comps |-> <<>>]
  /\ owed = [c \in Comps |-> 0]
  /\ renders = [c \in Comps |-> 0]

\* ---------------------------------------------------------------------------
\* The memory one commit of component c reads and writes, as a record.
Mem(c) ==
  [shaper |-> shaper, script |-> script, listeners |-> listeners, appended |-> appended,
   scriptLoadedState |-> scriptLoadedState[c], containerRef |-> containerRef[c],
   dashboardRef |-> dashboardRef[c], hasCleanup |-> hasCleanup[c],
   resolveJwtRef |-> resolveJwtRef[c], refreshRef |-> refreshRef[c],
   onLoadErrorRef |-> onLoadErrorRef[c], varsRef |-> varsRef[c],
   varsJsonRef |-> varsJsonRef[c], onVarsChangedRef |-> onVarsChangedRef[c],
   instances |-> instances[c], resolved |-> resolved[c]]

Store(c, m) ==
  /\ script' = m.script
  /\ listeners' = m.listeners
  /\ appended' = m.appended
  /\ scriptLoadedState' = [scriptLoadedState EXCEPT ![c] = m.scriptLoadedState]
  /\ containerRef' = [containerRef EXCEPT ![c] = m.containerRef]
  /\ dashboardRef' = [dashboardRef EXCEPT ![c] = m.dashboardRef]
  /\ hasCleanup' = [hasCleanup EXCEPT ![c] = m.hasCleanup]
  /\ resolveJwtRef' = [resolveJwtRef EXCEPT ![c] = m.resolveJwtRef]
  /\ refreshRef' = [refreshRef EXCEPT ![c] = m.refreshRef]
  /\ onLoadErrorRef' = [onLoadErrorRef EXCEPT ![c] = m.onLoadErrorRef]
  /\ varsRef' = [varsRef EXCEPT ![c] = m.varsRef]
  /\ varsJsonRef' = [varsJsonRef EXCEPT ![c] = m.varsJsonRef]
  /\ onVarsChangedRef' = [onVarsChangedRef EXCEPT ![c] = m.onVarsChangedRef]
  /\ instances' = [instances EXCEPT ![c] = m.instances]
  /\ resolved' = [resolved EXCEPT ![c] = m.resolved]

\* ---------------------------------------------------------------------------
\* The effects of the component, in declaration order.

\* Mutant of RefreshRefEffect: the first refreshJwt the host supplied is kept.
RefreshRefKeepsFirst(m, p) ==
  IF m.refreshRef = InitialRefresh THEN [m EXCEPT !.refreshRef = p.refreshJwt] ELSE m

\* part_003:86-88
RefreshRefEffect(m, p) == [m EXCEPT !.refreshRef = p.refreshJwt]

\* part_003:90-92
OnLoadErrorRefEffect(m, p) == [m EXCEPT !.onLoadErrorRef = p.onLoadError]

\* The next batch number of the resolution log.
NextBatch(log) == IF log = <<>> THEN 1 ELSE log[Len(log)].batch + 1

\* Mutant of ResolveAll: the resolvers are called last-in first-out.
ResolveAllReversed(queue, jwt, batch) ==
  [i \in 1..Len(queue) |-> [req |-> queue[Len(queue) + 1 - i], val |-> jwt, batch |-> batch]]

\* part_003:97-99  for (const resolve of resolveJwtRef.current) resolve(jwt)
ResolveAll(queue, jwt, batch) ==
  [i \in 1..Len(queue) |-> [req |-> queue[i], val |-> jwt, batch |-> batch]]

\* part_003:95-102
JwtEffect(m, p) ==
  IF Truthy(p.jwt)
  THEN [m EXCEPT !.resolved = @ \o ResolveAll(m.resolveJwtRef, p.jwt, NextBatch(m.resolved)),
                 !.resolveJwtRef = <<>>]
  ELSE m

\* part_003:107,120,132  setScriptLoaded(true)
SetScriptLoaded(m) == [m EXCEPT !.scriptLoadedState = TRUE]

\* Mutant of ExistingScript: only a tag that is still loading is found.
ExistingScriptOnlyLoading(m, scriptUrl) == m.script[scriptUrl] = "loading"

\* part_003:115  document.querySelector(`script[src="${scriptUrl}"]`)
ExistingScript(m, scriptUrl) == m.script[scriptUrl] # "absent"

\* part_003:117-124  listeners added to the script tag that is already in the DOM
AttachToExisting(c, m, scriptUrl) ==
  [m EXCEPT !.listeners[scriptUrl] = Append(@, c)]

\* part_003:126-139  a new script tag with onload/onerror, appended to the body
AppendScript(c, m, scriptUrl) ==
  [m EXCEPT !.script[scriptUrl] = "loading",
            !.appended[scriptUrl] = @ + 1,
            !.listeners[scriptUrl] = Append(@, c)]

\* part_003:104-143
ScriptEffect(c, m, p) ==
  IF m.shaper
  THEN SetScriptLoaded(m)
  ELSE LET scriptUrl == ScriptUrl(p.baseUrl) IN
       IF ExistingScript(m, scriptUrl)
       THEN AttachToExisting(c, m, scriptUrl)
       ELSE AppendScript(c, m, scriptUrl)

\* part_003:154-156  dashboardRef.current.update({ vars })
Update(m, v) ==
  [m EXCEPT !.instances[m.dashboardRef].updates = Append(@, v),
            !.instances[m.dashboardRef].calls = Append(@, "update")]

\* Mutant of VarsEffect: the comparison of the JSON texts is missing.
VarsEffectNoDedupe(m, p) ==
  LET m1 == [m EXCEPT !.varsRef = p.vars, !.varsJsonRef = JsonStringify(p.vars)]
  IN IF m1.dashboardRef # 0 THEN Update(m1, p.vars) ELSE m1

\* part_003:146-158
VarsEffect(m, p) ==
  LET s == JsonStringify(p.vars) IN
  IF s = m.varsJsonRef
  THEN m
  ELSE LET m1 == [m EXCEPT !.varsRef = p.vars, !.varsJsonRef = s]
       IN IF m1.dashboardRef # 0 THEN Update(m1, p.vars) ELSE m1

\* Mutant of OnVarsChangedRefEffect: the first callback the host supplied is kept.
OnVarsChangedRefKeepsFirst(m, p) ==
  IF m.onVarsChangedRef = Undefined THEN [m EXCEPT !.onVarsChangedRef = p.onVarsChanged] ELSE m

\* part_003:160-162
OnVarsChangedRefEffect(m, p) == [m EXCEPT !.onVarsChangedRef = p.onVarsChanged]

\* Mutant of Factory: the Instance is created without the vars (as in part_002:238-280).
FactoryWithoutVars(m, p) ==
  Append(m.instances,
         [destroyed |-> 0, vars |-> UndefinedVars, updates |-> <<>>, calls |-> <<"create">>])

\* part_003:175-192  window.shaper.dashboard({...}): one more instance of this mount,
\* created with vars: varsRef.current
Factory(m, p) ==
  Append(m.instances,
         [destroyed |-> 0, vars |-> m.varsRef, updates |-> <<>>, calls |-> <<"create">>])

\* Mutant of InitializeGuard: the scriptLoaded test is missing.
InitializeGuardNoScriptLoaded(m, sl) ==
  ~m.shaper \/ ~m.containerRef \/ m.dashboardRef # 0

\* part_003:166-173  the guard of the initialize effect
InitializeGuard(m, sl) ==
  ~sl \/ ~m.shaper \/ ~m.containerRef \/ m.dashboardRef # 0

\* part_003:165-201  (without the cleanup it returns)
InitializeEffect(m, p, sl) ==
  IF InitializeGuard(m, sl)
  THEN [m EXCEPT !.hasCleanup = FALSE]
  ELSE [m EXCEPT !.instances = Factory(m, p),
                 !.dashboardRef = Len(m.instances) + 1,
                 !.hasCleanup = TRUE]

\* Mutant of InitializeCleanup: the reference is dropped without destroy().
InitializeCleanupNoDestroy(m) ==
  [m EXCEPT !.dashboardRef = 0, !.hasCleanup = FALSE]

\* Mutant of InitializeCleanup: dashboardRef.current is not set to null after destroy().
InitializeCleanupKeepsRef(m) ==
  IF m.dashboardRef # 0
  THEN [m EXCEPT !.instances[m.dashboardRef].destroyed = @ + 1,
                 !.instances[m.dashboardRef].calls = Append(@, "destroy"),
                 !.hasCleanup = FALSE]
  ELSE [m EXCEPT !.hasCleanup = FALSE]

\* part_003:195-200  the cleanup returned by the initialize effect
InitializeCleanup(m) ==
  IF m.dashboardRef # 0
  THEN [m EXCEPT !.instances[m.dashboardRef].destroyed = @ + 1,
                 !.instances[m.dashboardRef].calls = Append(@, "destroy"),
                 !.dashboardRef = 0,
                 !.hasCleanup = FALSE]
  ELSE [m EXCEPT !.hasCleanup = FALSE]

\* part_003:88  [refreshJwt]
RefreshDepsChanged(old, new, first) == first \/ old.refreshJwt # new.refreshJwt

\* part_003:92  [onLoadError]
OnLoadErrorDepsChanged(old, new, first) == first \/ old.onLoadError # new.onLoadError

\* Mutant of JwtDepsChanged: the jwt effect has no dependency array and runs on every commit.
JwtDepsMissing(old, new, first) == TRUE

\* part_003:102  [jwt]
JwtDepsChanged(old, new, first) == first \/ old.jwt # new.jwt

\* part_003:143  [baseUrl]
ScriptDepsChanged(old, new, first) == first \/ old.baseUrl # new.baseUrl

\* part_003:158  [vars]  (Object.is: another object is a change, whatever it holds)
VarsDepsChanged(old, new, first) == first \/ old.vars # new.vars

\* part_003:162  [onVarsChanged]
OnVarsChangedDepsChanged(old, new, first) == first \/ old.onVarsChanged # new.onVarsChanged

\* Mutant of InitializeDepsChanged: jwt is listed among the dependencies.
InitializeDepsWithJwt(old, new, slOld, slNew, first) ==
  first \/ slOld # slNew \/ old.baseUrl # new.baseUrl \/ old.id # new.id \/ old.jwt # new.jwt

\* part_003:201  [scriptLoaded, baseUrl, id]
InitializeDepsChanged(old, new, slOld, slNew, first) ==
  first \/ slOld # slNew \/ old.baseUrl # new.baseUrl \/ old.id # new.id

\* One React commit of component c: props old -> new, scriptLoaded slOld -> slNew.
\* React first runs the cleanups of the effects whose dependencies changed, then
\* these effects in declaration order (all of them on the first commit).
Commit(c, m0, old, new, slOld, slNew, first) ==
  LET initDeps == InitializeDepsChanged(old, new, slOld, slNew, first)
      m1 == IF ~first /\ initDeps /\ m0.hasCleanup THEN InitializeCleanup(m0) ELSE m0
      m2 == IF RefreshDepsChanged(old, new, first) THEN RefreshRefEffect(m1, new) ELSE m1
      m3 == IF OnLoadErrorDepsChanged(old, new, first) THEN OnLoadErrorRefEffect(m2, new) ELSE m2
      m4 == IF JwtDepsChanged(old, new, first) THEN JwtEffect(m3, new) ELSE m3
      m5 == IF ScriptDepsChanged(old, new, first) THEN ScriptEffect(c, m4, new) ELSE m4
      m6 == IF VarsDepsChanged(old, new, first) THEN VarsEffect(m5, new) ELSE m5
      m7 == IF OnVarsChangedDepsChanged(old, new, first)
            THEN OnVarsChangedRefEffect(m6, new) ELSE m6
      m8 == IF initDeps THEN InitializeEffect(m7, new, slNew) ELSE m7
  IN m8

\* ---------------------------------------------------------------------------
\* Actions

\* The host mounts the component with props p: useState(false), the refs at their
\* initial values, the div attached, then the first commit.
Mount(c, p) ==
  /\ phase[c] = "init"
  /\ phase' = [phase EXCEPT ![c] = "mounted"]
  /\ props' = [props EXCEPT ![c] = p]
  /\ scriptLoaded' = [scriptLoaded EXCEPT ![c] = FALSE]
  /\ Store(c, Commit(c, [Mem(c) EXCEPT !.containerRef = TRUE, !.onLoadErrorRef = p.onLoadError],
                     p, p, FALSE, FALSE, TRUE))
  /\ UNCHANGED <<shaper, requests, refreshLog, loadErrors, varsChangedLog, owed, renders>>

\* A re-render of the mounted component: the host passes props p (possibly several
\* props changed at once; at most budget times), or React re-renders after
\* setScriptLoaded changed the state.
Render(c, p, budget) ==
  /\ phase[c] = "mounted"
  /\ \/ p # props[c] /\ renders[c] < budget
     \/ p = props[c] /\ scriptLoadedState[c] # scriptLoaded[c]
  /\ props' = [props EXCEPT ![c] = p]
  /\ scriptLoaded' = [scriptLoaded EXCEPT ![c] = scriptLoadedState[c]]
  /\ renders' = [renders EXCEPT ![c] = IF p # props[c] THEN @ + 1 ELSE @]
  /\ Store(c, Commit(c, Mem(c), props[c], p, scriptLoaded[c], scriptLoadedState[c], FALSE))
  /\ UNCHANGED <<shaper, phase, requests, refreshLog, loadErrors, varsChangedLog, owed>>

\* The host answers one refreshJwt invocation: it re-renders the component with a
\* non-empty token v as the jwt prop (README "Getting the JWT token", steps 2-4).
HostSetJwt(c, v) ==
  /\ phase[c] = "mounted"
  /\ owed[c] > 0
  /\ owed' = [owed EXCEPT ![c] = @ - 1]
  /\ props' = [props EXCEPT ![c].jwt = v]
  /\ scriptLoaded' = [scriptLoaded EXCEPT ![c] = scriptLoadedState[c]]
  /\ Store(c, Commit(c, Mem(c), props[c], [props[c] EXCEPT !.jwt = v],
                     scriptLoaded[c], scriptLoadedState[c], FALSE))
  /\ UNCHANGED <<shaper, phase, requests, refreshLog, loadErrors, varsChangedLog, renders>>

\* The host unmounts the component: the cleanup of the initialize effect runs if the
\* effect returned one, and the div is detached.
Unmount(c) ==
  /\ phase[c] = "mounted"
  /\ phase' = [phase EXCEPT ![c] = "unmounted"]
  /\ Store(c, [(IF hasCleanup[c] THEN InitializeCleanup(Mem(c)) ELSE Mem(c))
                 EXCEPT !.containerRef = FALSE])
  /\ UNCHANGED <<shaper, props, scriptLoaded, requests, refreshLog, loadErrors, varsChangedLog,
                 owed, renders>>

\* part_003:119-121,131-133  the load event of the script tag of scriptUrl. The script
\* has run: it registered window.shaper.dashboard (registers) or it did not. React
\* ignores setScriptLoaded on a component that is no longer mounted.
ScriptLoad(scriptUrl, registers) ==
  /\ script[scriptUrl] = "loading"
  /\ script' = [script EXCEPT ![scriptUrl] = "loaded"]
  /\ shaper' = (shaper \/ registers)
  /\ scriptLoadedState' =
       [c \in Comps |->
          IF phase[c] = "mounted" /\ \E i \in 1..Len(listeners[scriptUrl]) :
                                         listeners[scriptUrl][i] = c
          THEN TRUE ELSE scriptLoadedState[c]]
  /\ UNCHANGED <<listeners, appended, phase, props, scriptLoaded, containerRef, dashboardRef,
                 hasCleanup, resolveJwtRef, refreshRef, onLoadErrorRef, varsRef, varsJsonRef,
                 onVarsChangedRef, obsVars>>

\* Number of handlers component c has attached to the script tag of scriptUrl.
Attached(c, scriptUrl) ==
  Cardinality({i \in 1..Len(listeners[scriptUrl]) : listeners[scriptUrl][i] = c})

\* part_003:122-124,135-137  the error event of the script tag of scriptUrl: every
\* attached handler calls the onLoadError its component supplied last.
ScriptError(scriptUrl) ==
  /\ script[scriptUrl] = "loading"
  /\ script' = [script EXCEPT ![scriptUrl] = "failed"]
  /\ loadErrors' =
       [c \in Comps |->
          loadErrors[c] \o [i \in 1..Attached(c, scriptUrl) |->
                              [fn |-> onLoadErrorRef[c], msg |-> FailureMessage(scriptUrl)]]]
  /\ UNCHANGED <<shaper, listeners, appended, compVars, instances, requests, refreshLog,
                 resolved, varsChangedLog, owed, renders>>

\* part_003:181  resolveJwtRef.current.push(resolve)
PushResolver(queue, req) == Append(queue, req)

\* Mutant of GetJwt: concurrent requests are coalesced, refreshJwt is invoked only
\* when no other request is pending.
GetJwtCoalesced(c) ==
  /\ dashboardRef[c] # 0
  /\ requests[c] < MaxReq
  /\ requests' = [requests EXCEPT ![c] = @ + 1]
  /\ resolveJwtRef' = [resolveJwtRef EXCEPT ![c] = Append(@, requests[c] + 1)]
  /\ refreshLog' = [refreshLog EXCEPT ![c] = IF resolveJwtRef[c] = <<>>
                                              THEN Append(@, refreshRef[c]) ELSE @]
  /\ owed' = [owed EXCEPT ![c] = IF resolveJwtRef[c] = <<>> THEN @ + 1 ELSE @]
  /\ UNCHANGED <<pageVars, phase, props, scriptLoadedState, scriptLoaded, containerRef,
                 dashboardRef, hasCleanup, refreshRef, onLoadErrorRef, varsRef, varsJsonRef,
                 onVarsChangedRef, instances, resolved, loadErrors, varsChangedLog, renders>>

\* part_003:179-185  the live instance of component c calls getJwt.
GetJwt(c) ==
  /\ dashboardRef[c] # 0
  /\ requests[c] < MaxReq
  /\ requests' = [requests EXCEPT ![c] = @ + 1]
  /\ resolveJwtRef' = [resolveJwtRef EXCEPT ![c] = PushResolver(@, requests[c] + 1)]
  /\ refreshLog' = [refreshLog EXCEPT ![c] = Append(@, refreshRef[c])]
  /\ owed' = [owed EXCEPT ![c] = IF refreshRef[c] \in RefreshFns THEN @ + 1 ELSE @]
  /\ UNCHANGED <<pageVars, phase, props, scriptLoadedState, scriptLoaded, containerRef,
                 dashboardRef, hasCleanup, refreshRef, onLoadErrorRef, varsRef, varsJsonRef,
                 onVarsChangedRef, instances, resolved, loadErrors, varsChangedLog, renders>>

\* part_003:188-190  if (onVarsChangedRef.current) onVarsChangedRef.current(newVars)
Forward(callback, newVars) ==
  IF callback # Undefined THEN <<[fn |-> callback, vars |-> newVars]>> ELSE <<>>

\* part_003:187-191  the live instance of component c reports newVars through the
\* onVarsChanged function it was created with.
VarsChanged(c, newVars) ==
  /\ dashboardRef[c] # 0
  /\ Len(varsChangedLog[c]) < MaxNotify
  /\ varsChangedLog' =
       [varsChangedLog EXCEPT ![c] =
          Append(@, [emitted |-> newVars, calls |-> Forward(onVarsChangedRef[c], newVars)])]
  /\ UNCHANGED <<pageVars, compVars, instances, requests, refreshLog, resolved, loadErrors,
                 owed, renders>>

\* One component, driven through every prop, and its widget instance.
Next ==
  \/ \E c \in Solo : \E p \in PropsSet : Mount(c, p)
  \/ \E c \in Solo : \E p \in PropsSet : Render(c, p, MaxRenders)
  \/ \E c \in Solo : \E v \in Tokens : HostSetJwt(c, v)
  \/ \E c \in Solo : Unmount(c)
  \/ \E u \in ScriptUrls : \E registers \in BOOLEAN : ScriptLoad(u, registers)
  \/ \E u \in ScriptUrls : ScriptError(u)
  \/ \E c \in Solo : GetJwt(c)

Spec == Init /\ [][Next]_vars

\* The host answers every refreshJwt invocation (the premise of the README's
\* token protocol); nothing else is assumed to happen.
LiveSpec == Spec /\ \A c \in Solo : WF_vars(\E v \in Tokens : HostSetJwt(c, v))

\* Several components on one page, sharing its script tags and window.shaper.
PageNext ==
  \/ \E c \in Comps : \E p \in PageProps : Mount(c, p)
  \/ \E c \in Comps : \E p \in PageProps : Render(c, p, MaxPageRenders)
  \/ \E c \in Comps : Unmount(c)
  \/ \E u \in ScriptUrls : \E registers \in BOOLEAN : ScriptLoad(u, registers)
  \/ \E u \in ScriptUrls : ScriptError(u)

PageSpec == Init /\ [][PageNext]_vars

\* One component, driven through every prop; its widget instance makes no calls.
LifeNext ==
  \/ \E c \in Solo : \E p \in LifeProps : Mount(c, p)
  \/ \E c \in Solo : \E p \in LifeProps : Render(c, p, MaxLifeRenders)
  \/ \E c \in Solo : Unmount(c)
  \/ \E u \in ScriptUrls : \E registers \in BOOLEAN : ScriptLoad(u, registers)
  \/ \E u \in ScriptUrls : ScriptError(u)

LifeSpec == Init /\ [][LifeNext]_vars

\* One component whose host renders one vars object after the other.
VarsNext ==
  \/ \E c \in Solo : \E p \in VarsProps : Mount(c, p)
  \/ \E c \in Solo : \E p \in VarsProps : Render(c, p, MaxVarsRenders)
  \/ \E c \in Solo : Unmount(c)
  \/ \E u \in ScriptUrls : \E registers \in BOOLEAN : ScriptLoad(u, registers)
  \/ \E u \in ScriptUrls : ScriptError(u)

VarsSpec == Init /\ [][VarsNext]_vars

\* One component whose host replaces onVarsChanged and whose widget reports changes
\* of its variables.
NotifyNext ==
  \/ \E c \in Solo : \E p \in NotifyProps : Mount(c, p)
  \/ \E c \in Solo : \E p \in NotifyProps : Render(c, p, MaxNotifyRenders)
  \/ \E c \in Solo : Unmount(c)
  \/ \E u \in ScriptUrls : \E registers \in BOOLEAN : ScriptLoad(u, registers)
  \/ \E u \in ScriptUrls : ScriptError(u)
  \/ \E c \in Solo : \E newVars \in {VarsA1, VarsA2} : VarsChanged(c, newVars)

NotifySpec == Init /\ [][NotifyNext]_vars

\* One component whose host changes only the jwt prop, and its widget instance.
JwtNext ==
  \/ \E c \in Solo : \E p \in JwtProps : Mount(c, p)
  \/ \E c \in Solo : \E p \in JwtProps : Render(c, p, MaxJwtRenders)
  \/ \E c \in Solo : Unmount(c)
  \/ \E u \in ScriptUrls : \E registers \in BOOLEAN : ScriptLoad(u, registers)
  \/ \E u \in ScriptUrls : ScriptError(u)
  \/ \E c \in Solo : GetJwt(c)

JwtSpec == Init /\ [][JwtNext]_vars

TypeOK ==
  /\ shaper \in BOOLEAN
  /\ \A u \in ScriptUrls : script[u] \in {"absent", "loading", "loaded", "failed"}
  /\ \A c \in Comps : /\ phase[c] \in {"init", "mounted", "unmounted"}
                      /\ props[c] \in AllProps
                      /\ varsRef[c] \in VarsVals
                      /\ phase[c] # "init" => varsJsonRef[c] = JsonStringify(props[c].vars)
                      /\ dashboardRef[c] \in 0..Len(instances[c])
                      /\ requests[c] \in 0..MaxReq

\* ---------------------------------------------------------------------------
\* Claims

\* The entries a step appends to the resolution log of component c.
NewlyResolved(c) == SubSeq(resolved'[c], Len(resolved[c]) + 1, Len(resolved'[c]))

\* The jwt prop of the mounted component c changes to a non-empty value in this step.
JwtSupplied(c) ==
  /\ phase[c] = "mounted" /\ phase'[c] = "mounted"
  /\ props'[c].jwt # props[c].jwt
  /\ Truthy(props'[c].jwt)

\* C1: when the jwt prop of a mounted component changes to a non-empty value v while
\* N >= 1 token requests are pending, exactly these N promises are resolved, each
\* with v, in the order they were requested, and the queue is empty afterwards.
C1_AllWaitersResolvedInOrder ==
  [][\A c \in Comps :
       (JwtSupplied(c) /\ resolveJwtRef[c] # <<>>) =>
         LET n == Len(resolveJwtRef[c])
             new == NewlyResolved(c)
         IN /\ Len(resolved'[c]) = Len(resolved[c]) + n
            /\ SubSeq(resolved'[c], 1, Len(resolved[c])) = resolved[c]
            /\ \A i \in 1..n : new[i].val = props'[c].jwt
            /\ {new[i].req : i \in 1..n} = {resolveJwtRef[c][i] : i \in 1..n}
            /\ \A i, j \in 1..n : i < j => new[i].req < new[j].req
            /\ resolveJwtRef'[c] = <<>>]_vars

\* C1 witness: two requests were pending together and one change of the jwt prop
\* resolved both.
C1_Witness ==
  \E c \in Comps :
    /\ Len(resolved[c]) >= 2
    /\ resolved[c][1].batch = resolved[c][2].batch
    /\ resolved[c][1].val = props[c].jwt
    /\ resolveJwtRef[c] = <<>>

\* C2: a supply with no pending waiter changes nothing and is not cached: a getJwt
\* call always leaves its request pending, also when the jwt prop holds a token, and
\* a pending request is resolved only by a step in which the jwt prop changes to a
\* non-empty value.
C2_NoCaching ==
  [][\A c \in Comps :
       /\ (JwtSupplied(c) /\ resolveJwtRef[c] = <<>>) =>
            (resolved'[c] = resolved[c] /\ resolveJwtRef'[c] = <<>>)
       /\ requests'[c] # requests[c] =>
            /\ resolveJwtRef'[c] = Append(resolveJwtRef[c], requests'[c])
            /\ resolved'[c] = resolved[c]
       /\ (resolved'[c] # resolved[c]
           \/ \E i \in 1..Len(resolveJwtRef[c]) :
                \A j \in 1..Len(resolveJwtRef'[c]) : resolveJwtRef'[c][j] # resolveJwtRef[c][i])
            => JwtSupplied(c)]_vars

\* C2 witness: the jwt prop holds a token, the token was supplied when nobody was
\* waiting, and a request made afterwards is pending.
C2_Witness ==
  \E c \in Comps :
    /\ phase[c] = "mounted"
    /\ Truthy(props[c].jwt)
    /\ resolved[c] = <<>>
    /\ resolveJwtRef[c] # <<>>

\* C3: if the host answers every refreshJwt invocation by setting the jwt prop to a
\* non-empty token, whatever its value, every pending request of a mounted component
\* is eventually resolved.
C3_EveryRequestResolved ==
  \A c \in Solo :
    (phase[c] = "mounted" /\ resolveJwtRef[c] # <<>>)
      ~> (resolveJwtRef[c] = <<>> \/ phase[c] # "mounted")

\* C4: every getJwt call invokes the host's refreshJwt exactly once and queues exactly
\* one waiter: after N calls refreshJwt was invoked N times (never the initial no-op
\* of refreshRef), also for requests made while the jwt prop is undefined.
C4_OneRefreshPerRequest ==
  \A c \in Comps :
    /\ Len(refreshLog[c]) = requests[c]
    /\ \A i \in 1..Len(refreshLog[c]) : refreshLog[c][i] \in RefreshFns
    /\ Len(resolveJwtRef[c]) + Len(resolved[c]) = requests[c]
    /\ {resolveJwtRef[c][i] : i \in 1..Len(resolveJwtRef[c])}
         \cup {resolved[c][i].req : i \in 1..Len(resolved[c])} = 1..requests[c]

\* C4 witness: two concurrent requests made while the jwt prop is undefined, two
\* refreshJwt invocations.
C4_Witness ==
  \E c \in Comps :
    /\ props[c].jwt = Undefined
    /\ Len(resolveJwtRef[c]) = 2
    /\ Len(refreshLog[c]) = 2

\* The factory is called for component c in this step.
Created(c) == Len(instances'[c]) > Len(instances[c])

\* C5 as stated: once an Instance was created, no step calls the factory again for
\* this mount.
C5_NeverCreatedAgain ==
  [][\A c \in Comps : Len(instances[c]) >= 1 => ~Created(c)]_vars

\* C5 amended: once an Instance was created, the factory is called again only by a
\* commit that changes id or baseUrl, which destroys the current Instance first and
\* creates exactly one; no other prop change and no script event calls the factory.
C5_CreatedAgainOnlyOnIdOrBaseUrl ==
  [][\A c \in Comps :
       /\ (Len(instances[c]) >= 1 /\ Created(c)) =>
            /\ props'[c].id # props[c].id \/ props'[c].baseUrl # props[c].baseUrl
            /\ Len(instances'[c]) = Len(instances[c]) + 1
            /\ dashboardRef[c] # 0
            /\ instances'[c][dashboardRef[c]].destroyed = 1
            /\ dashboardRef'[c] = Len(instances'[c])
       /\ (dashboardRef[c] # 0 /\ phase'[c] = "mounted"
           /\ (props'[c].id # props[c].id \/ props'[c].baseUrl # props[c].baseUrl)) =>
            Created(c)]_vars

\* C5 witness: the host changed props twice, a change of vars among them reached the
\* first Instance through update(), and that Instance is still the only one and live.
C5_Witness ==
  \E c \in Comps :
    /\ Len(instances[c]) = 1
    /\ dashboardRef[c] = 1
    /\ instances[c][1].destroyed = 0
    /\ instances[c][1].updates # <<>>
    /\ renders[c] >= 2

\* The Instances of component c that were created and not destroyed.
Live(c) == {i \in 1..Len(instances[c]) : instances[c][i].destroyed = 0}

\* C6: at most one Instance of a mount is live at any time, and a step creates an
\* Instance only in a commit where scriptLoaded is true, window.shaper.dashboard is
\* registered and the container is attached.
C6_OneLiveInstanceCreatedWhenReady ==
  [][\A c \in Comps :
       /\ Cardinality(Live(c))' <= 1
       /\ Created(c) => /\ scriptLoaded'[c] /\ shaper' /\ containerRef'[c]
                         /\ phase'[c] = "mounted"
                         /\ \E u \in ScriptUrls : script'[u] = "loaded"]_vars

\* C6 witness: a second Instance of the same mount is live, the first one destroyed.
C6_Witness ==
  \E c \in Comps :
    /\ Len(instances[c]) = 2
    /\ Live(c) = {2}
    /\ dashboardRef[c] = 2

\* C7: destroy() is never invoked twice on an Instance, every Instance but the live
\* one has been destroyed once, and after unmount every Instance that was created
\* has been destroyed exactly once (none, if none was created).
C7_DestroyedExactlyOnce ==
  \A c \in Comps :
    /\ \A i \in 1..Len(instances[c]) :
         /\ instances[c][i].destroyed <= 1
         /\ i # dashboardRef[c] => instances[c][i].destroyed = 1
         /\ phase[c] = "unmounted" => instances[c][i].destroyed = 1
    /\ phase[c] = "unmounted" => dashboardRef[c] = 0

\* C7 witness: the component is unmounted and both Instances it created were destroyed.
C7_Witness ==
  \E c \in Comps :
    /\ phase[c] = "unmounted"
    /\ Len(instances[c]) = 2
    /\ \A i \in 1..2 : instances[c][i].destroyed = 1

\* C7 witness of the other case: unmounted before any Instance was created.
C7_WitnessNeverCreated ==
  \E c \in Comps : phase[c] = "unmounted" /\ instances[c] = <<>> /\ scriptLoadedState[c]

\* The script URL of the component's baseUrl prop, before and after a step.
UrlOf(c) == ScriptUrl(props[c].baseUrl)

\* The host of component c was told that the script of scriptUrl failed to load.
NotifiedOfFailure(c, scriptUrl) ==
  \E i \in 1..Len(loadErrors[c]) :
    loadErrors[c][i] = [fn |-> props[c].onLoadError, msg |-> FailureMessage(scriptUrl)]

\* Component c mounts in this step, with the script URL u.
Mounts(c, u) ==
  phase[c] = "init" /\ phase'[c] = "mounted" /\ ScriptUrl(props'[c].baseUrl) = u

\* The load of the script of u completes in this step.
Completes(u) == script[u] = "loading" /\ script'[u] \in {"loaded", "failed"}

\* C8: when components mount with a baseUrl whose script is neither loaded (no
\* factory registered) nor failed, exactly one script tag is created for the URL,
\* and when that load completes each mounted component waiting for it is notified
\* exactly once: scriptLoaded set on success, onLoadError called once with the
\* failure message on error.
C8_OneTagEachNotifiedOnce ==
  [][\A u \in ScriptUrls : \A c \in Comps :
       /\ appended'[u] <= 1
       /\ (Mounts(c, u) /\ ~shaper /\ script[u] \in {"absent", "loading"}) =>
            (appended'[u] = 1 /\ script'[u] = "loading" /\ Attached(c, u)' = 1)
       /\ (Completes(u) /\ phase[c] = "mounted" /\ UrlOf(c) = u /\ Attached(c, u) >= 1) =>
            IF script'[u] = "failed"
            THEN loadErrors'[c] =
                   Append(loadErrors[c],
                          [fn |-> props[c].onLoadError, msg |-> FailureMessage(u)])
            ELSE scriptLoadedState'[c] /\ loadErrors'[c] = loadErrors[c]]_vars

\* C9: when the script load of a mounted component's URL fails, the host's
\* onLoadError is called with 'Failed to load Shaper script from <url>'; a failed
\* script stays failed and no second tag is inserted for its URL; and a mounted
\* component whose URL has failed has no Instance.
C9_FailedLoadNoInstanceNotifiedNoRetry ==
  [][\A u \in ScriptUrls : \A c \in Comps :
       /\ (script[u] = "loading" /\ script'[u] = "failed"
           /\ phase[c] = "mounted" /\ UrlOf(c) = u) =>
            /\ Len(loadErrors'[c]) > Len(loadErrors[c])
            /\ loadErrors'[c][Len(loadErrors'[c])] =
                 [fn |-> props[c].onLoadError, msg |-> FailureMessage(u)]
       /\ script[u] = "failed" =>
            (script'[u] = "failed" /\ appended[u] = 1 /\ appended'[u] = 1)
       /\ (script'[u] = "failed" /\ phase'[c] = "mounted" /\ UrlOf(c)' = u) =>
            dashboardRef'[c] = 0]_vars

\* C10: a component that mounts after the load of its URL reached a terminal state
\* observes that outcome in the commit of its mount: scriptLoaded set if the script
\* was loaded and registered the factory, the failure notification if it failed.
C10_LateMountObservesOutcome ==
  [][\A u \in ScriptUrls : \A c \in Comps :
       /\ (Mounts(c, u) /\ script[u] = "loaded" /\ shaper) => scriptLoadedState'[c]
       /\ (Mounts(c, u) /\ script[u] = "failed") =>
            \E i \in 1..Len(loadErrors'[c]) :
              loadErrors'[c][i] = [fn |-> props'[c].onLoadError, msg |-> FailureMessage(u)]]_vars

\* The widget of component c emits a variables-changed notification in this step.
Emits(c) == Len(varsChangedLog'[c]) = Len(varsChangedLog[c]) + 1

\* C12: every notification the live Instance emits is delivered exactly once, with
\* the emitted vars, to the onVarsChanged of the host's last commit, or to nobody if
\* the host passes none; and a commit that only replaces onVarsChanged neither
\* updates nor destroys nor re-creates the Instance.
C12_NotificationsReachLatestCallback ==
  [][\A c \in Comps :
       /\ Emits(c) =>
            LET n == varsChangedLog'[c][Len(varsChangedLog'[c])]
            IN /\ dashboardRef[c] # 0
               /\ n.calls = IF props[c].onVarsChanged = Undefined
                             THEN <<>>
                             ELSE <<[fn |-> props[c].onVarsChanged, vars |-> n.emitted]>>
       /\ (phase[c] = "mounted" /\ phase'[c] = "mounted"
           /\ props'[c].onVarsChanged # props[c].onVarsChanged
           /\ props'[c] = [props[c] EXCEPT !.onVarsChanged = props'[c].onVarsChanged]
           /\ scriptLoaded'[c] = scriptLoaded[c]) =>
            /\ instances'[c] = instances[c]
            /\ dashboardRef'[c] = dashboardRef[c]
            /\ varsChangedLog'[c] = varsChangedLog[c]]_vars

\* C12 witness: the only Instance, never updated, emitted two notifications; the
\* first reached the callback v1 and the second, after the host replaced the
\* callback, reached v2.
C12_Witness ==
  \E c \in Comps :
    /\ Len(instances[c]) = 1 /\ dashboardRef[c] = 1 /\ instances[c][1].updates = <<>>
    /\ Len(varsChangedLog[c]) = 2
    /\ varsChangedLog[c][1].calls = <<[fn |-> "v1", vars |-> varsChangedLog[c][1].emitted]>>
    /\ varsChangedLog[c][2].calls = <<[fn |-> "v2", vars |-> varsChangedLog[c][2].emitted]>>

\* C12 witness of the other case: after the host removed the callback a notification
\* was dropped.
C12_WitnessDropped ==
  \E c \in Comps :
    /\ Len(varsChangedLog[c]) = 2
    /\ Len(varsChangedLog[c][1].calls) = 1
    /\ varsChangedLog[c][2].calls = <<>>

\* The mapping of a vars value: its key-value pairs, without order and identity.
Mapping(v) == {<<v.entries[i].key, v.entries[i].val>> : i \in 1..Len(v.entries)}

\* Structural equality of two vars values.
SameMapping(v, w) == v.defined = w.defined /\ Mapping(v) = Mapping(w)

\* The Instance of component c that is live before this step is still its live
\* Instance after it.
StaysLive(c) == dashboardRef[c] # 0 /\ dashboardRef'[c] = dashboardRef[c]

\* The update() calls the live Instance of component c has received.
Updates(c) == instances[c][dashboardRef[c]].updates

\* The vars the factory call and the update() calls have delivered to the live
\* Instance of component c, in order.
Delivered(c) == <<instances[c][dashboardRef[c]].vars>> \o Updates(c)

\* C11: while an Instance stays live, a commit whose vars snapshot is structurally
\* equal to the previous one forwards no update(), and a commit whose snapshot
\* differs forwards exactly one update() carrying the new value, appended in order.
C11_UpdatesAreCollapsedSnapshots ==
  [][\A c \in Comps :
       StaysLive(c) =>
         Updates(c)' = IF SameMapping(props[c].vars, props'[c].vars)
                       THEN Updates(c)
                       ELSE Append(Updates(c), props'[c].vars)]_vars

\* C13 as stated, in the weaker form "no two update() calls of one Instance carry the
\* same JSON text" (the same text implies the same value).
C13_EachValueForwardedOnce ==
  \A c \in Comps : \A n \in 1..Len(instances[c]) :
    LET u == instances[c][n].updates
    IN \A i, j \in 1..Len(u) : i < j => JsonStringify(u[i]) # JsonStringify(u[j])

\* C13 amended: while an Instance stays live, a commit forwards one update() exactly
\* when the JSON text of its vars differs from the text of the vars delivered last,
\* so two consecutive deliveries never carry the same text, while a value that
\* recurs after another one is forwarded again.
C13_ForwardedOncePerChange ==
  [][\A c \in Comps :
       StaysLive(c) =>
         /\ Updates(c)' = IF JsonStringify(props'[c].vars) = varsJsonRef[c]
                          THEN Updates(c)
                          ELSE Append(Updates(c), props'[c].vars)
         /\ \A i \in 1..(Len(Delivered(c)') - 1) :
              JsonStringify(Delivered(c)'[i]) # JsonStringify(Delivered(c)'[i + 1])]_vars

\* C13 witness: the live Instance was created with A and received update(B) and
\* update(A), and another object with the properties of A was rendered last
\* without an update().
C13_Witness ==
  \E c \in Comps :
    /\ dashboardRef[c] # 0
    /\ Len(Updates(c)) = 2
    /\ JsonStringify(Updates(c)[2]) = JsonStringify(instances[c][dashboardRef[c]].vars)
    /\ props[c].vars = Copy(Updates(c)[2])

\* C14: a commit whose vars snapshot maps the same keys to the same values as the
\* previous one forwards no update(), whatever the identity of the object and the
\* order in which its keys were inserted.
C14_DedupeByMapping ==
  [][\A c \in Comps :
       (StaysLive(c) /\ SameMapping(props[c].vars, props'[c].vars)) =>
         Updates(c)' = Updates(c)]_vars

\* C15: the vars delivered last to the live Instance (by the factory call or by
\* update()) are structurally equal to the vars prop of the last commit, also when
\* vars changed before the Instance was created or re-created.
C15_LiveInstanceHasCommittedVars ==
  \A c \in Comps :
    dashboardRef[c] # 0 =>
      SameMapping(Delivered(c)[Len(Delivered(c))], props[c].vars)

\* C15 witness: vars changed between the creation of the first Instance and the
\* creation of the second one without an update(), and the second Instance was
\* created with the changed vars.
C15_Witness ==
  \E c \in Comps :
    /\ Len(instances[c]) = 2
    /\ dashboardRef[c] = 2
    /\ instances[c][1].updates = <<>>
    /\ instances[c][2].updates = <<>>
    /\ ~SameMapping(instances[c][1].vars, instances[c][2].vars)
    /\ props[c].vars = instances[c][2].vars

\* C16: an Instance is created for a component only when the script of the
\* component's own URL has loaded: the load of the script of another baseUrl never
\* makes the component ready.
C16_LiveOnlyAfterOwnScriptLoaded ==
  [][\A c \in Comps : Created(c) => script'[UrlOf(c)'] = "loaded"]_vars

\* C17: at most one script tag is ever inserted for a script URL, and a tag that was
\* inserted stays in the page, also when the components that use it unmount.
C17_OneTagPerUrlNeverRemoved ==
  [][\A u \in ScriptUrls :
       /\ appended'[u] <= 1
       /\ appended'[u] >= appended[u]
       /\ (appended'[u] = 1) = (script'[u] # "absent")
       /\ script[u] # "absent" => script'[u] # "absent"]_vars

\* C17 witness: two components were mounted and unmounted, handlers were attached
\* three times or more to the tag of one URL, and each URL has exactly one tag.
C17_Witness ==
  /\ \A c \in Comps : phase[c] = "unmounted"
  /\ \A u \in ScriptUrls : appended[u] = 1 /\ script[u] # "absent"
  /\ \E u \in ScriptUrls : Len(listeners[u]) >= 3

\* C18: a commit that replaces refreshJwt invokes no refresh action and, unless it
\* also changes jwt, leaves the queue of waiters as it is; a getJwt call invokes the
\* refreshJwt of the host's last commit, exactly once.
C18_ReplacingRefreshOnlyAffectsLaterRequests ==
  [][\A c \in Comps :
       /\ (phase[c] = "mounted" /\ phase'[c] = "mounted"
           /\ props'[c].refreshJwt # props[c].refreshJwt) =>
            /\ refreshLog'[c] = refreshLog[c]
            /\ requests'[c] = requests[c]
            /\ props'[c].jwt = props[c].jwt =>
                 (resolveJwtRef'[c] = resolveJwtRef[c] /\ resolved'[c] = resolved[c])
       /\ requests'[c] # requests[c] =>
            refreshLog'[c] = Append(refreshLog[c], props[c].refreshJwt)]_vars

\* C18 witness: a request invoked r1, the host replaced refreshJwt while that request
\* was pending, the next request invoked r2, and both are pending in order.
C18_Witness ==
  \E c \in Comps :
    /\ refreshLog[c] = <<"r1", "r2">>
    /\ resolveJwtRef[c] = <<1, 2>>
    /\ props[c].refreshJwt = "r2"

\* C19: a step resolves waiters only if it is a commit whose jwt prop is a non-empty
\* string, and resolves them to that string; a commit whose jwt prop is undefined or
\* the empty string resolves nobody and leaves the queue as it is.
C19_ResolvedOnlyByNonEmptyJwt ==
  [][\A c \in Comps :
       /\ resolved'[c] # resolved[c] =>
            /\ phase'[c] = "mounted"
            /\ props'[c].jwt \in Tokens
            /\ \A i \in 1..Len(NewlyResolved(c)) : NewlyResolved(c)[i].val = props'[c].jwt
       /\ (phase'[c] = "mounted" /\ props'[c].jwt \notin Tokens /\ requests'[c] = requests[c]) =>
            (resolved'[c] = resolved[c] /\ resolveJwtRef'[c] = resolveJwtRef[c])]_vars

\* C19 witness: one request was resolved by a token, then the host set jwt to the
\* empty string while another request was pending, which is still pending.
C19_Witness ==
  \E c \in Comps :
    /\ phase[c] = "mounted"
    /\ props[c].jwt = ""
    /\ Len(resolved[c]) = 1
    /\ resolveJwtRef[c] = <<2>>
    /\ renders[c] >= 2

\* C20: when the load event of a script fires and the script did not register
\* window.shaper.dashboard, a mounted component waiting for it gets the load-failure
\* notification, as for an error event, and no Instance is created without the
\* factory.
C20_MissingFactoryReportedAsLoadError ==
  [][\A u \in ScriptUrls : \A c \in Comps :
       /\ (script[u] = "loading" /\ script'[u] = "loaded" /\ ~shaper'
           /\ phase[c] = "mounted" /\ UrlOf(c) = u /\ Attached(c, u) >= 1) =>
            loadErrors'[c] =
              Append(loadErrors[c], [fn |-> props[c].onLoadError, msg |-> FailureMessage(u)])
       /\ Created(c) => shaper']_vars

\* The calls made on an Instance form the sequence create, update*, destroy.
CreateUpdatesDestroy(calls) ==
  /\ Len(calls) >= 1
  /\ calls[1] = "create"
  /\ \A k \in 2..Len(calls) : calls[k] = "update" \/ (calls[k] = "destroy" /\ k = Len(calls))

\* C21: the calls the component makes on each Instance form the sequence create,
\* update*, destroy (nothing is called on an Instance after its destroy(), also when
\* vars changes in the commit that unmounts or re-creates), and an unmounted
\* component creates no Instance and makes no call.
C21_CreateUpdatesDestroy ==
  [][\A c \in Comps :
       /\ \A i \in 1..Len(instances'[c]) :
            /\ CreateUpdatesDestroy(instances'[c][i].calls)
            /\ Len(instances'[c][i].calls) =
                 1 + Len(instances'[c][i].updates) + instances'[c][i].destroyed
       /\ phase[c] = "unmounted" => instances'[c] = instances[c]]_vars

\* C21 witness: vars changed in the commit that re-created the Instance: the first
\* Instance got create, destroy and no update; the second one, created with the new
\* vars, got create, update, destroy, the last at unmount.
C21_Witness ==
  \E c \in Comps :
    /\ phase[c] = "unmounted"
    /\ Len(instances[c]) = 2
    /\ instances[c][1].calls = <<"create", "destroy">>
    /\ instances[c][2].calls = <<"create", "update", "destroy">>
    /\ ~SameMapping(instances[c][1].vars, instances[c][2].vars)

====
